---- MODULE Spec2Model ----
(***************************************************************************)
(* Vivid: the rules of diagrammatic inference (vivid/classes/              *)
(* inference_rules.py) over the entailment engine (Context, NamedState,    *)
(* Formula, AssumptionBase).  The rule layer is translated from its        *)
(* source; the engine it calls is not part of the source tree at hand and  *)
(* is modelled from the specification (sections 3, 4.1 - 4.3).  Two        *)
(* further specifications edit a State through set_ascription (StateSpec,  *)
(* from the specification and the State unit tests) and a Vocabulary       *)
(* through its constructor and add methods (VocabularySpec, from           *)
(* vivid/Classes/Vocabulary.py).                                           *)
(***************************************************************************)
EXTENDS Naturals, FiniteSets, Sequences, TLC

(***************************************************************************)
(* Bounds of the model.                                                    *)
(***************************************************************************)
\* the most branch named states handed to a rule ( *named_states )
MaxCases == 2
\* the most case-splitting formulae handed to a rule ( *formulae )
MaxFormulae == 1
\* the most formulae of an assumption base a caller builds
MaxBase == 2

(***************************************************************************)
(* The fixed configuration: one attribute system and one vocabulary.       *)
(***************************************************************************)
Objects == {"s1", "s2"}
Attributes == {"color"}
\* the declared domain of every attribute
Domain == {"R", "G"}
Pairs == Attributes \X Objects
ValueSets == (SUBSET Domain) \ {{}}

Constants == {"c1"}
Variables == {"x"}
Terms == Constants \cup Variables
\* the ConstantAssignment rho shared by every NamedState of the model
p == [c \in Constants |-> "s1"]

\* total VariableAssignments over the object universe
VariableAssignments == [Variables -> Objects]
\* the flagged, empty assignment VariableAssignment(..., {}, dummy=True)
DummyAssignment == [v \in {} |-> "s1"]

(***************************************************************************)
(* Values.  Python's True and False and the evaluator's third value are    *)
(* strings here so that one field can hold any of them.                    *)
(***************************************************************************)
PyTrue == "True"
PyFalse == "False"
\* the evaluator's indeterminate value: distinct from True and False
Unknown == "unknown"
\* the exceptions the rules raise, by message
ContextTypeError == "TypeError: context parameter must be a Context object."
NamedStateTypeError == "TypeError: named_state parameter must be a NamedState object."
DisjunctionError == "ValueError: disjunction F1 OR F2 does not hold"
ExhaustiveError == "ValueError: named states are not exahustive on basis of formulae."
ProvisoErrorC1 == "ValueError: [C1] proviso does not hold"
ProvisoErrorC3 == "ValueError: [C3] proviso does not hold"

Bool(b) == IF b THEN PyTrue ELSE PyFalse

\* Python's truth test `if v` / `not v` of a value the evaluator returns
Truthy(v) == v # PyFalse

(***************************************************************************)
(* State / World model (spec 3, 4.1).                                      *)
(***************************************************************************)
Ascriptions == [Pairs -> ValueSets]

NamedState(asc) == [is_NamedState |-> TRUE, ascriptions |-> asc]
NamedStates == {NamedState(asc) : asc \in Ascriptions}
\* an object that is no NamedState (it lacks the _is_NamedState marker)
NotANamedState == [is_NamedState |-> FALSE]

\* s1 <= s2: s2 is an extension of s1
Le(s1, s2) ==
    \A pr \in Pairs : s2.ascriptions[pr] \subseteq s1.ascriptions[pr]

is_world(s) == \A pr \in Pairs : Cardinality(s.ascriptions[pr]) = 1

\* the Cartesian product of all ascriptions
get_worlds(s) ==
    {NamedState([pr \in Pairs |-> {f[pr]}]) :
        f \in {g \in [Pairs -> Domain] : \A pr \in Pairs : g[pr] \in s.ascriptions[pr]}}

\* world w is a refinement of named state s
Refines(w, s) == \A pr \in Pairs : w.ascriptions[pr] \subseteq s.ascriptions[pr]

(***************************************************************************)
(* Formulas and their three-valued evaluation (spec 3, 4.2).               *)
(***************************************************************************)
\* the atomic relational formulas Red(t) over the vocabulary
Formulas == [rel : {"Red"}, term : Terms]

Closed(F) == F.term \in Constants

\* the AttributeInterpretation: Red is grounded in (color) by value = R
Profile(rel, value) == rel = "Red" /\ value = "R"

Resolve(t, X) == IF t \in Constants THEN p[t] ELSE X[t]

\* true if every completion of the ValueSet satisfies the profile, false if
\* every completion falsifies it, indeterminate otherwise
assign_truth_value(F, named_state, X) ==
    LET vs == named_state.ascriptions[<<"color", Resolve(F.term, X)>>]
    IN  IF \A v \in vs : Profile(F.rel, v) THEN PyTrue
        ELSE IF \A v \in vs : ~Profile(F.rel, v) THEN PyFalse
        ELSE Unknown

(***************************************************************************)
(* Assumption bases and contexts (spec 3).                                 *)
(***************************************************************************)
\* an AssumptionBase is a deduplicated collection of Formulas
AssumptionBases == {S \in SUBSET Formulas : Cardinality(S) <= MaxBase}

SeqToSet(s) == {s[i] : i \in DOMAIN s}

Context(assumption_base, named_state) ==
    [is_Context |-> TRUE, assumption_base |-> assumption_base,
     named_state |-> named_state]
Contexts == {Context(ab, ns) : ab \in AssumptionBases, ns \in NamedStates}
\* an object that is no Context (it lacks the _is_Context marker)
NotAContext == [is_Context |-> FALSE]

(***************************************************************************)
(* Entailment engine (spec 4.3).                                           *)
(***************************************************************************)
\* world w under X satisfies every formula of the assumption base
SatisfiesBase(w, X, assumption_base) ==
    \A F \in assumption_base : assign_truth_value(F, w, X) = PyTrue

\* world w under X satisfies the context: it refines the context's named
\* state and satisfies its assumption base
satisfies_context(w, context, X) ==
    /\ Refines(w, context.named_state)
    /\ SatisfiesBase(w, X, context.assumption_base)

entails_named_state(context, inferred) ==
    \A w \in get_worlds(context.named_state) : \A X \in VariableAssignments :
        SatisfiesBase(w, X, context.assumption_base) => Refines(w, inferred)

entails_formula(context, F) ==
    \A w \in get_worlds(context.named_state) : \A X \in VariableAssignments :
        SatisfiesBase(w, X, context.assumption_base)
            => assign_truth_value(F, w, X) = PyTrue

\* named_states holds the named states of *named_states
is_named_entailment(self, assumption_base, named_states) ==
    \A w \in get_worlds(self) : \A X \in VariableAssignments :
        SatisfiesBase(w, X, assumption_base)
            => \E s \in named_states : Refines(w, s)

\* the sign of each formula in world w
Signs(w, X, formulae) ==
    [i \in DOMAIN formulae |-> assign_truth_value(formulae[i], w, X)]

\* the branches of the case split: the sign combinations that some world of
\* the state realises
get_basis(self, X, formulae) ==
    {Signs(w, X, formulae) : w \in get_worlds(self)}

\* the worlds of the state on one branch
BranchWorlds(self, X, formulae, branch) ==
    {w \in get_worlds(self) : Signs(w, X, formulae) = branch}

\* the named states are in bijection with the branches, each being exactly
\* the refinement of its branch
is_exhaustive(self, X, formulae, named_states) ==
    LET basis == get_basis(self, X, formulae)
        Covers(s, b) == get_worlds(s) = BranchWorlds(self, X, formulae, b)
    IN  /\ Cardinality(named_states) = Cardinality(basis)
        /\ \A b \in basis : \E s \in named_states : Covers(s, b)
        /\ \A s \in named_states : \E b \in basis : Covers(s, b)

(***************************************************************************)
(* The rules of inference (vivid/classes/inference_rules.py).  A rule's    *)
(* outcome is the boolean it returns or the exception it raises.  An       *)
(* optional argument is a tuple: <<>> is None, <<v>> is the value v.       *)
(***************************************************************************)
\* Python's `not assumption_base`: None, or an AssumptionBase of length 0
NoAssumptionBase(assumption_base) ==
    assumption_base = <<>> \/ assumption_base[1] = {}

\* thinning that never consults the assumption base
thinning_without_base(context, named_state, assumption_base) ==
    IF ~context.is_Context THEN ContextTypeError
    ELSE IF ~named_state.is_NamedState THEN NamedStateTypeError
    ELSE Bool(Le(named_state, context.named_state))

thinning(context, named_state, assumption_base) ==
    IF ~context.is_Context THEN ContextTypeError
    ELSE IF ~named_state.is_NamedState THEN NamedStateTypeError
    ELSE IF NoAssumptionBase(assumption_base)
         THEN Bool(Le(named_state, context.named_state))
    ELSE Bool(is_named_entailment(context.named_state, assumption_base[1],
                                  {named_state}))

\* widening whose argument checks run in the other order
widening_named_state_first(context, named_state, attribute_interpretation) ==
    IF ~named_state.is_NamedState THEN NamedStateTypeError
    ELSE IF ~context.is_Context THEN ContextTypeError
    ELSE Bool(Le(context.named_state, named_state))

\* line 108 evaluates context.entails_named_state(named_state, ...) when an
\* interpretation is given and drops its value
widening(context, named_state, attribute_interpretation) ==
    IF ~context.is_Context THEN ContextTypeError
    ELSE IF ~named_state.is_NamedState THEN NamedStateTypeError
    ELSE LET dropped == attribute_interpretation # <<>>
                            /\ entails_named_state(context, named_state)
         IN  Bool(Le(context.named_state, named_state))

observe(context, formula) == Bool(entails_formula(context, formula))

\* absurdity decided by extension alone, as widening is
diagrammatic_absurdity_by_extension(context, named_state) ==
    IF ~context.is_Context THEN ContextTypeError
    ELSE IF ~named_state.is_NamedState THEN NamedStateTypeError
    ELSE Bool(Le(context.named_state, named_state))

diagrammatic_absurdity(context, named_state) ==
    IF ~context.is_Context THEN ContextTypeError
    ELSE IF ~named_state.is_NamedState THEN NamedStateTypeError
    ELSE Bool(entails_named_state(context, named_state))

\* reiteration that hands back the diagram with every ascription forgotten
diagram_reiteration_forgetting(context) ==
    NamedState([pr \in Pairs |-> Domain])

diagram_reiteration(context) == context.named_state

\* `if not variable_assignment`: the dummy assignment replaces None
AssignmentOrDummy(variable_assignment) ==
    IF variable_assignment = <<>> THEN DummyAssignment ELSE variable_assignment[1]

\* the disjunction tested by truthiness (`not F1_holds and not F2_holds`)
sentential_to_sentential_truthy(context, F1, F2, G, variable_assignment) ==
    LET X == AssignmentOrDummy(variable_assignment)
        F1_holds == assign_truth_value(F1, context.named_state, X)
        F2_holds == assign_truth_value(F2, context.named_state, X)
        G_holds == assign_truth_value(G, context.named_state, X)
    IN  IF ~Truthy(F1_holds) /\ ~Truthy(F2_holds) THEN DisjunctionError
        ELSE IF Truthy(F1_holds) /\ ~Truthy(G_holds) THEN PyFalse
        ELSE IF Truthy(F2_holds) /\ ~Truthy(G_holds) THEN PyFalse
        ELSE PyTrue

sentential_to_sentential(context, F1, F2, G, variable_assignment) ==
    LET X == AssignmentOrDummy(variable_assignment)
        F1_holds == assign_truth_value(F1, context.named_state, X)
        F2_holds == assign_truth_value(F2, context.named_state, X)
        G_holds == assign_truth_value(G, context.named_state, X)
    IN  IF F1_holds # PyTrue /\ F2_holds # PyTrue THEN DisjunctionError
        ELSE IF Truthy(F1_holds) /\ ~Truthy(G_holds) THEN PyFalse
        ELSE IF Truthy(F2_holds) /\ ~Truthy(G_holds) THEN PyFalse
        ELSE PyTrue

\* the worlds tested against the F1 context only
sentential_to_diagrammatic_f1_only(context, F1, F2, named_state, variable_assignment) ==
    LET X0 == AssignmentOrDummy(variable_assignment)
        F1_holds == assign_truth_value(F1, context.named_state, X0)
        F2_holds == assign_truth_value(F2, context.named_state, X0)
        f1_context == Context({F1} \cup context.assumption_base,
                              context.named_state)
    IN  IF F1_holds # PyTrue /\ F2_holds # PyTrue THEN DisjunctionError
        ELSE IF \E world \in get_worlds(named_state) : \E X \in VariableAssignments :
                    ~satisfies_context(world, f1_context, X)
             THEN PyFalse
        ELSE PyTrue

sentential_to_diagrammatic(context, F1, F2, named_state, variable_assignment) ==
    LET X0 == AssignmentOrDummy(variable_assignment)
        F1_holds == assign_truth_value(F1, context.named_state, X0)
        F2_holds == assign_truth_value(F2, context.named_state, X0)
        \* F + assumption_base unless F is in it already
        f1_assumption_base == IF F1 \notin context.assumption_base
                              THEN {F1} \cup context.assumption_base
                              ELSE context.assumption_base
        f2_assumption_base == IF F2 \notin context.assumption_base
                              THEN {F2} \cup context.assumption_base
                              ELSE context.assumption_base
        f1_context == Context(f1_assumption_base, context.named_state)
        f2_context == Context(f2_assumption_base, context.named_state)
    IN  IF F1_holds # PyTrue /\ F2_holds # PyTrue THEN DisjunctionError
        ELSE IF \E world \in get_worlds(named_state) : \E X \in VariableAssignments :
                    \/ ~satisfies_context(world, f1_context, X)
                    \/ ~satisfies_context(world, f2_context, X)
             THEN PyFalse
        ELSE PyTrue

\* lines 257-274 and 364-381, common to [C1] and [C3]: the assumption base
\* of the proviso
\* the context's own assumption base reused when no formulae are given
ProvisoBaseOfContext(context, formulae) ==
    IF formulae # <<>> THEN SeqToSet(formulae) ELSE context.assumption_base

ProvisoBase(context, formulae) ==
    IF formulae # <<>> THEN SeqToSet(formulae) ELSE {}

\* lines 276-285 and 383-391: the context extended with the formulae
\* the context's existing formulae dropped from the extension
ExtendedContextOfFormulae(context, formulae) ==
    Context(SeqToSet(formulae), context.named_state)

ExtendedContext(context, formulae) ==
    Context(context.assumption_base \cup SeqToSet(formulae), context.named_state)

\* [C1] without the exhaustiveness check
diagrammatic_to_diagrammatic_unchecked(context, inferred_named_state, named_states, variable_assignment, formulae) ==
    IF ~is_named_entailment(context.named_state,
                            ProvisoBase(context, formulae), named_states)
    THEN ProvisoErrorC1
    ELSE Bool(entails_named_state(ExtendedContext(context, formulae),
                                  inferred_named_state))

diagrammatic_to_diagrammatic(context, inferred_named_state, named_states, variable_assignment, formulae) ==
    IF /\ formulae # <<>>
       /\ ~is_exhaustive(context.named_state, variable_assignment, formulae,
                         named_states)
    THEN ExhaustiveError
    ELSE IF ~is_named_entailment(context.named_state,
                                 ProvisoBase(context, formulae), named_states)
    THEN ProvisoErrorC1
    ELSE Bool(entails_named_state(ExtendedContext(context, formulae),
                                  inferred_named_state))

diagrammatic_to_sentential(context, F, named_states, variable_assignment, formulae) ==
    IF /\ formulae # <<>>
       /\ ~is_exhaustive(context.named_state, variable_assignment, formulae,
                         named_states)
    THEN ExhaustiveError
    ELSE IF ~is_named_entailment(context.named_state,
                                 ProvisoBase(context, formulae), named_states)
    THEN ProvisoErrorC3
    ELSE Bool(entails_formula(ExtendedContext(context, formulae), F))

(***************************************************************************)
(* The inputs of the rule applications.                                    *)
(***************************************************************************)
SeqsUpTo(S, lo, hi) == UNION {[1..n -> S] : n \in lo..hi}

\* *named_states: n > 0 branch named states (the engine reads them as a
\* collection, in no order)
CaseSets == {S \in SUBSET NamedStates : Cardinality(S) \in 1..MaxCases}
\* *formulae: k >= 0 case-splitting formulae
FormulaTuples == SeqsUpTo(Formulas, 0, MaxFormulae)
\* an optional VariableAssignment
OptionalAssignments == {<<>>} \cup {<<X>> : X \in VariableAssignments}
\* an optional AssumptionBase
OptionalBases == {<<>>} \cup {<<ab>> : ab \in AssumptionBases}
\* an optional AttributeInterpretation
OptionalInterpretations == {<<>>, <<"chi">>}
\* what a caller may pass for context and for named_state
ContextArgs(c) == {c, NotAContext}
NamedStateArgs == NamedStates \cup {NotANamedState}

(***************************************************************************)
(* State: an attribute system and a total map of ascriptions, edited       *)
(* through set_ascription.  The attribute system is the one of the State   *)
(* unit tests with the attribute color kept; the constructor and           *)
(* set_ascription follow sections 3, 4.1 and 7 of the specification.       *)
(***************************************************************************)
\* the most ascriptions handed to the State constructor
MaxInitial == 1

color == [label |-> "color", value_set |-> {"R", "G", "B"}]
asys == [attribute_structure |-> {color}, objects |-> Objects]

\* the (attribute, object) pairs an attribute system declares
DeclaredPairs(attribute_system) ==
    {<<a.label, o>> : a \in attribute_system.attribute_structure, o \in attribute_system.objects}

\* the declared domain of the attribute with the given label
DeclaredDomain(attribute_system, label) ==
    (CHOOSE a \in attribute_system.attribute_structure : a.label = label).value_set

\* a constructor that stores the ascriptions it is handed and nothing else
State_without_defaults(attribute_system, ascriptions) ==
    [is_State |-> TRUE, attribute_system |-> attribute_system, ascriptions |-> ascriptions]

\* State(attribute_system, ascriptions): every declared pair gets the
\* ValueSet handed in, or the full declared domain
State(attribute_system, ascriptions) ==
    [is_State |-> TRUE, attribute_system |-> attribute_system,
     ascriptions |-> [pr \in DeclaredPairs(attribute_system) |->
                        IF pr \in DOMAIN ascriptions THEN ascriptions[pr]
                        ELSE DeclaredDomain(attribute_system, pr[1])]]

\* s1 == s2 of two States
State_eq(s1, s2) ==
    s1.attribute_system = s2.attribute_system /\ s1.ascriptions = s2.ascriptions

KeyError == "KeyError"
ValueError == "ValueError"
\* a call that returns without raising
NoError == "None"

\* the errors a set_ascription call is open to; a call open to several
\* raises one of them
set_ascription_errors(self, ao_pair, new_valueset) ==
    LET declared == ao_pair \in DeclaredPairs(self.attribute_system)
        in_domain == new_valueset \subseteq DeclaredDomain(self.attribute_system, ao_pair[1])
        current == self.ascriptions[ao_pair]
    IN  (IF declared THEN {} ELSE {KeyError})
        \cup (IF new_valueset = {} THEN {ValueError} ELSE {})
        \cup (IF declared /\ ~in_domain THEN {ValueError} ELSE {})
        \cup (IF declared /\ in_domain /\ new_valueset # {}
                 /\ ~(new_valueset \subseteq current) /\ ~(current \subseteq new_valueset)
              THEN {ValueError} ELSE {})

\* the outcomes of a call: the error raised (or none) and the State after
Outcomes(self, ao_pair, new_valueset, errors) ==
    IF errors = {}
    THEN {[raised |-> NoError,
           self |-> [self EXCEPT !.ascriptions[ao_pair] = new_valueset]]}
    ELSE {[raised |-> e, self |-> self] : e \in errors}

\* set_ascription that takes any non-empty ValueSet of the declared domain
set_ascription_within_domain(self, ao_pair, new_valueset) ==
    LET declared == ao_pair \in DeclaredPairs(self.attribute_system)
    IN  Outcomes(self, ao_pair, new_valueset,
            (IF declared THEN {} ELSE {KeyError})
            \cup (IF new_valueset = {} THEN {ValueError} ELSE {})
            \cup (IF declared /\ ~(new_valueset \subseteq DeclaredDomain(self.attribute_system, ao_pair[1]))
                  THEN {ValueError} ELSE {}))

\* set_ascription that clears the pair before it validates the ValueSet
set_ascription_clearing(self, ao_pair, new_valueset) ==
    LET errors == set_ascription_errors(self, ao_pair, new_valueset)
    IN  IF errors = {} \/ ao_pair \notin DeclaredPairs(self.attribute_system)
        THEN Outcomes(self, ao_pair, new_valueset, errors)
        ELSE {[raised |-> e,
               self |-> [self EXCEPT !.ascriptions[ao_pair] =
                            DeclaredDomain(self.attribute_system, ao_pair[1])]] : e \in errors}

set_ascription(self, ao_pair, new_valueset) ==
    Outcomes(self, ao_pair, new_valueset, set_ascription_errors(self, ao_pair, new_valueset))

\* the ascriptions a caller hands to the constructor: some declared pairs,
\* each with a non-empty ValueSet of its declared domain
InitialAscriptions ==
    UNION {[D -> (SUBSET color.value_set) \ {{}}] :
              D \in {E \in SUBSET DeclaredPairs(asys) : Cardinality(E) <= MaxInitial}}
\* the orders in which the entries of a set can have been written
Orders(S) == {q \in SeqsUpTo(S, Cardinality(S), Cardinality(S)) : SeqToSet(q) = S}
\* what a caller may pass to set_ascription
PairArgs == DeclaredPairs(asys) \cup {<<"color", "bad object">>, <<"bad label", "s2">>}
ValueSetArgs == SUBSET (color.value_set \cup {"a"})

(***************************************************************************)
(* Vocabulary (vivid/Classes/Vocabulary.py): the lists C, R and V, each    *)
(* kept sorted by the lower-cased symbol.  Symbols and relation symbols    *)
(* are strings here; a relation symbol is written name/arity.  Callers     *)
(* pass lists; an entry of a list may fail to be a string.                 *)
(***************************************************************************)
\* the longest list C, R or V handed to the constructor
MaxSymbols == 2

Symbols == {"a", "A", "b"}
\* a symbol no vocabulary of the model holds
UnknownSymbol == "zzz"
\* an argument that is not of type str
NotAStr == "<1>"
RelationSymbols == {"Red/1", "Red/2", "ahead/2"}
\* rs._name
RelationName(rs) == IF rs = "ahead/2" THEN "ahead" ELSE "Red"

\* str.lower()
lower(c) == CASE c = "A" -> "a" [] c = "Red" -> "red" [] OTHER -> c
\* the lower-cased strings of the model, in the order of Python's <
LowerCased == <<"a", "ahead", "b", "red">>
Rank(k) == CHOOSE i \in DOMAIN LowerCased : LowerCased[i] = k

\* key=lambda c: c.lower() and key=lambda rs: rs._name.lower()
ConstantKey == [c \in Symbols |-> Rank(lower(c))]
RelationKey == [rs \in RelationSymbols |-> Rank(lower(RelationName(rs)))]

\* list.insert of the stable sort: x goes behind every entry whose key is
\* not greater than its own
RECURSIVE InsertByKey(_, _, _)
InsertByKey(l, x, key) ==
    IF l = <<>> THEN <<x>>
    ELSE IF key[x] < key[Head(l)] THEN <<x>> \o l
    ELSE <<Head(l)>> \o InsertByKey(Tail(l), x, key)

\* sorted(l, key=...): Python's sort is stable
RECURSIVE sorted(_, _)
sorted(l, key) ==
    IF l = <<>> THEN <<>>
    ELSE InsertByKey(sorted(SubSeq(l, 1, Len(l) - 1), key), l[Len(l)], key)

\* list(set(l)): the entries of l once each, in the order the set yields
\* them, which the language leaves open
list_of_set(l) == Orders(SeqToSet(l))

StrTypeErrorC == "TypeError: all entries in C parameter must be of type str"
StrTypeErrorV == "TypeError: all entries in V parameter must be of type str"
CommonElementError == "ValueError: C and V parameters may not have a common element"
DuplicateNamesError == "ValueError: Duplicate RelationSymbol names not permitted"
ConstantTypeError == "TypeError: constant parameter must be a string"
VariableTypeError == "TypeError: variable parameter must be a string"
DuplicateSymbolError == "ValueError: duplicate symbol cannot be added"

\* what a name is bound to when the constructor raised
NoVocabulary == [is_Vocabulary |-> FALSE]

\* Vocabulary(C, R, V): the error raised, or the objects the call can build
Vocabulary(C, R, V) ==
    IF NotAStr \in SeqToSet(C) THEN {[raised |-> StrTypeErrorC, self |-> NoVocabulary]}
    ELSE IF NotAStr \in SeqToSet(V) THEN {[raised |-> StrTypeErrorV, self |-> NoVocabulary]}
    ELSE IF SeqToSet(C) \cap SeqToSet(V) # {}
         THEN {[raised |-> CommonElementError, self |-> NoVocabulary]}
    ELSE IF Len(R) # Cardinality({RelationName(R[i]) : i \in DOMAIN R})
         THEN {[raised |-> DuplicateNamesError, self |-> NoVocabulary]}
    ELSE {[raised |-> NoError,
           self |-> [is_Vocabulary |-> TRUE, C |-> sorted(c, ConstantKey),
                     R |-> sorted(r, RelationKey), V |-> sorted(v, ConstantKey)]] :
            c \in list_of_set(C), r \in list_of_set(R), v \in list_of_set(V)}

\* self == other of two Vocabulary objects
Vocabulary_eq(self, other) ==
    /\ SeqToSet(self.C) = SeqToSet(other.C)
    /\ SeqToSet(self.R) = SeqToSet(other.R)
    /\ SeqToSet(self.V) = SeqToSet(other.V)

\* hasattr(item, "_is_RelationSymbol")
IsRelationSymbol(item) == item \in RelationSymbols

\* `item in vocabulary`: the truth of what __contains__ returns, which for
\* an item that is no relation symbol is `self._C or item in self._V`
Vocabulary_contains(self, item) ==
    IF IsRelationSymbol(item) THEN item \in SeqToSet(self.R)
    ELSE self.C # <<>> \/ item \in SeqToSet(self.V)

\* add_constant that does not look the symbol up in V
add_constant_unchecked(self, constant) ==
    IF constant = NotAStr THEN [raised |-> ConstantTypeError, self |-> self]
    ELSE IF constant \in SeqToSet(self.C) THEN [raised |-> DuplicateSymbolError, self |-> self]
    ELSE [raised |-> NoError,
          self |-> [self EXCEPT !.C = sorted(self.C \o <<constant>>, ConstantKey)]]

add_constant(self, constant) ==
    IF constant = NotAStr THEN [raised |-> ConstantTypeError, self |-> self]
    ELSE IF constant \in SeqToSet(self.C) \/ constant \in SeqToSet(self.V)
         THEN [raised |-> DuplicateSymbolError, self |-> self]
    ELSE [raised |-> NoError,
          self |-> [self EXCEPT !.C = sorted(self.C \o <<constant>>, ConstantKey)]]

add_variable(self, variable) ==
    IF variable = NotAStr THEN [raised |-> VariableTypeError, self |-> self]
    ELSE IF variable \in SeqToSet(self.C) \/ variable \in SeqToSet(self.V)
         THEN [raised |-> DuplicateSymbolError, self |-> self]
    ELSE [raised |-> NoError,
          self |-> [self EXCEPT !.V = sorted(self.V \o <<variable>>, ConstantKey)]]

\* _key()
Vocabulary_key(self) == <<self.C, self.R, self.V>>

\* the lists a caller hands to the constructor
SymbolLists == SeqsUpTo(Symbols \cup {NotAStr}, 0, MaxSymbols)
RelationLists == SeqsUpTo(RelationSymbols, 0, MaxSymbols)
\* what a caller may pass to add_constant and add_variable
SymbolArgs == Symbols \cup {NotAStr}
\* what a caller may look up with `in`
ItemArgs == Symbols \cup {UnknownSymbol} \cup RelationSymbols

(***************************************************************************)
(* The state: the Context of the current proof line; the call under way    *)
(* (a rule application or a method call, with its arguments and its        *)
(* outcome), "none" between two calls; the State under edit, with the      *)
(* pairs set explicitly so far in the order they were first set; and the   *)
(* Vocabulary object.                                                      *)
(***************************************************************************)
VARIABLES ctx, call, state, explicit, vocabulary

vars == <<ctx, call, state, explicit, vocabulary>>

\* the vocabulary of the contexts: Vocabulary(['c1'], [Red/1], ['x'])
ContextVocabulary ==
    [is_Vocabulary |-> TRUE, C |-> <<"c1">>, R |-> <<"Red/1">>, V |-> <<"x">>]

\* the State as State(asys) builds it, nothing set
FreshState == state = State(asys, <<>>) /\ explicit = <<>>

Init ==
    /\ ctx \in Contexts
    /\ call = [rule |-> "none"]
    /\ FreshState
    /\ vocabulary = ContextVocabulary

Idle == call.rule = "none"

Thinning ==
    /\ Idle
    /\ \E context \in ContextArgs(ctx), named_state \in NamedStateArgs,
       assumption_base \in OptionalBases :
        /\ call' = [rule |-> "thinning", context |-> context,
                    named_state |-> named_state,
                    assumption_base |-> assumption_base,
                    out |-> thinning(context, named_state, assumption_base)]
        /\ UNCHANGED <<ctx, state, explicit, vocabulary>>

Widening ==
    /\ Idle
    /\ \E context \in ContextArgs(ctx), named_state \in NamedStateArgs,
       attribute_interpretation \in OptionalInterpretations :
        /\ call' = [rule |-> "widening", context |-> context,
                    named_state |-> named_state,
                    attribute_interpretation |-> attribute_interpretation,
                    out |-> widening(context, named_state,
                                     attribute_interpretation)]
        /\ UNCHANGED <<ctx, state, explicit, vocabulary>>

Observe ==
    /\ Idle
    /\ \E formula \in Formulas :
        /\ call' = [rule |-> "observe", context |-> ctx, formula |-> formula,
                    out |-> observe(ctx, formula)]
        /\ UNCHANGED <<ctx, state, explicit, vocabulary>>

DiagrammaticAbsurdity ==
    /\ Idle
    /\ \E context \in ContextArgs(ctx), named_state \in NamedStateArgs :
        /\ call' = [rule |-> "diagrammatic_absurdity", context |-> context,
                    named_state |-> named_state,
                    out |-> diagrammatic_absurdity(context, named_state)]
        /\ UNCHANGED <<ctx, state, explicit, vocabulary>>

DiagramReiteration ==
    /\ Idle
    /\ call' = [rule |-> "diagram_reiteration", context |-> ctx,
                out |-> diagram_reiteration(ctx)]
    /\ UNCHANGED <<ctx, state, explicit, vocabulary>>

\* a formula with a variable needs an assignment that binds it
Evaluable(F, variable_assignment) == variable_assignment # <<>> \/ Closed(F)

SententialToSentential ==
    /\ Idle
    /\ \E F1 \in Formulas, F2 \in Formulas, G \in Formulas,
       variable_assignment \in OptionalAssignments :
        /\ \A F \in {F1, F2, G} : Evaluable(F, variable_assignment)
        /\ call' = [rule |-> "sentential_to_sentential", context |-> ctx,
                    F1 |-> F1, F2 |-> F2, G |-> G,
                    variable_assignment |-> variable_assignment,
                    out |-> sentential_to_sentential(ctx, F1, F2, G,
                                                     variable_assignment)]
        /\ UNCHANGED <<ctx, state, explicit, vocabulary>>

SententialToDiagrammatic ==
    /\ Idle
    /\ \E F1 \in Formulas, F2 \in Formulas, named_state \in NamedStates,
       variable_assignment \in OptionalAssignments :
        /\ \A F \in {F1, F2} : Evaluable(F, variable_assignment)
        /\ call' = [rule |-> "sentential_to_diagrammatic", context |-> ctx,
                    F1 |-> F1, F2 |-> F2, named_state |-> named_state,
                    variable_assignment |-> variable_assignment,
                    out |-> sentential_to_diagrammatic(ctx, F1, F2, named_state,
                                                       variable_assignment)]
        /\ UNCHANGED <<ctx, state, explicit, vocabulary>>

DiagrammaticToDiagrammatic ==
    /\ Idle
    /\ \E inferred_named_state \in NamedStates, named_states \in CaseSets,
       variable_assignment \in VariableAssignments, formulae \in FormulaTuples :
        /\ call' = [rule |-> "diagrammatic_to_diagrammatic", context |-> ctx,
                    inferred_named_state |-> inferred_named_state,
                    named_states |-> named_states,
                    variable_assignment |-> variable_assignment,
                    formulae |-> formulae,
                    out |-> diagrammatic_to_diagrammatic(ctx,
                                inferred_named_state, named_states,
                                variable_assignment, formulae)]
        /\ UNCHANGED <<ctx, state, explicit, vocabulary>>

DiagrammaticToSentential ==
    /\ Idle
    /\ \E F \in Formulas, named_states \in CaseSets,
       variable_assignment \in VariableAssignments, formulae \in FormulaTuples :
        /\ call' = [rule |-> "diagrammatic_to_sentential", context |-> ctx,
                    F |-> F, named_states |-> named_states,
                    variable_assignment |-> variable_assignment,
                    formulae |-> formulae,
                    out |-> diagrammatic_to_sentential(ctx, F, named_states,
                                variable_assignment, formulae)]
        /\ UNCHANGED <<ctx, state, explicit, vocabulary>>

\* the proof checker takes the outcome; the next line may apply a rule
Return ==
    /\ ~Idle
    /\ call' = [rule |-> "none"]
    /\ UNCHANGED <<ctx, state, explicit, vocabulary>>

Next ==
    \/ Thinning
    \/ Widening
    \/ Observe
    \/ DiagrammaticAbsurdity
    \/ DiagramReiteration
    \/ SententialToSentential
    \/ SententialToDiagrammatic
    \/ DiagrammaticToDiagrammatic
    \/ DiagrammaticToSentential
    \/ Return

Spec == Init /\ [][Next]_vars

(***************************************************************************)
(* Editing a State: construction, then set_ascription calls.  The proof    *)
(* line and the vocabulary stay as they are.                               *)
(***************************************************************************)
\* the proof line while a State or a Vocabulary is being edited
RulesAtRest == ctx = Context({}, NamedState([pr \in Pairs |-> Domain]))

StateInit ==
    /\ RulesAtRest
    /\ call = [rule |-> "none"]
    /\ \E ascriptions \in InitialAscriptions :
        /\ state = State(asys, ascriptions)
        /\ explicit \in Orders(DOMAIN ascriptions)
    /\ vocabulary = ContextVocabulary

SetAscription ==
    /\ Idle
    /\ \E ao_pair \in PairArgs, new_valueset \in ValueSetArgs :
       \E outcome \in set_ascription(state, ao_pair, new_valueset) :
        /\ call' = [rule |-> "set_ascription", self |-> state,
                    ao_pair |-> ao_pair, new_valueset |-> new_valueset,
                    out |-> outcome.raised]
        /\ state' = outcome.self
        /\ explicit' = IF outcome.raised = NoError /\ ao_pair \notin SeqToSet(explicit)
                       THEN Append(explicit, ao_pair) ELSE explicit
        /\ UNCHANGED <<ctx, vocabulary>>

StateNext ==
    \/ SetAscription
    \/ Return

StateSpec == StateInit /\ [][StateNext]_vars

(***************************************************************************)
(* Editing a Vocabulary: the constructor call, then add_constant,          *)
(* add_variable and membership tests on the object it built.               *)
(***************************************************************************)
VocabularyInit ==
    /\ RulesAtRest
    /\ FreshState
    /\ \E C \in SymbolLists, R \in RelationLists, V \in SymbolLists :
       \E outcome \in Vocabulary(C, R, V) :
        /\ call = [rule |-> "Vocabulary", C |-> C, R |-> R, V |-> V,
                   out |-> outcome.raised]
        /\ vocabulary = outcome.self

AddConstant ==
    /\ Idle
    /\ vocabulary.is_Vocabulary
    /\ \E constant \in SymbolArgs :
        LET outcome == add_constant(vocabulary, constant)
        IN  /\ call' = [rule |-> "add_constant", self |-> vocabulary,
                        symbol |-> constant, out |-> outcome.raised]
            /\ vocabulary' = outcome.self
            /\ UNCHANGED <<ctx, state, explicit>>

AddVariable ==
    /\ Idle
    /\ vocabulary.is_Vocabulary
    /\ \E variable \in SymbolArgs :
        LET outcome == add_variable(vocabulary, variable)
        IN  /\ call' = [rule |-> "add_variable", self |-> vocabulary,
                        symbol |-> variable, out |-> outcome.raised]
            /\ vocabulary' = outcome.self
            /\ UNCHANGED <<ctx, state, explicit>>

Contains ==
    /\ Idle
    /\ vocabulary.is_Vocabulary
    /\ \E item \in ItemArgs :
        /\ call' = [rule |-> "contains", self |-> vocabulary, item |-> item,
                    out |-> Bool(Vocabulary_contains(vocabulary, item))]
        /\ UNCHANGED <<ctx, state, explicit, vocabulary>>

VocabularyNext ==
    \/ AddConstant
    \/ AddVariable
    \/ Contains
    \/ Return

VocabularySpec == VocabularyInit /\ [][VocabularyNext]_vars

(***************************************************************************)
(* What the claims speak of, read off the recorded application.            *)
(***************************************************************************)
Applied(rule) == call.rule = rule

\* the application got past the argument checks of lines 56-60 / 101-105 /
\* 183-187
WellTyped == call.context.is_Context /\ call.named_state.is_NamedState

\* the value of a formula of the application in the context's named state,
\* under the supplied (or dummy) variable assignment
ValueOf(F) ==
    assign_truth_value(F, call.context.named_state,
                       AssignmentOrDummy(call.variable_assignment))

Holds(F) == ValueOf(F) = PyTrue

Unrelated(s1, s2) == ~Le(s1, s2) /\ ~Le(s2, s1)

\* some formula of the assumption base is false in every world of the
\* context's named state
Absurd(context) ==
    \E F \in context.assumption_base :
        \A w \in get_worlds(context.named_state) : \A X \in VariableAssignments :
            assign_truth_value(F, w, X) = PyFalse

CaseRule == Applied("diagrammatic_to_diagrammatic") \/ Applied("diagrammatic_to_sentential")

Exhaustive ==
    is_exhaustive(call.context.named_state, call.variable_assignment,
                  call.formulae, call.named_states)

\* the proviso, against a given assumption base
ProvisoAgainst(assumption_base) ==
    is_named_entailment(call.context.named_state, assumption_base,
                        call.named_states)

ProvisoFailed == call.out \in {ProvisoErrorC1, ProvisoErrorC3}

\* the conclusion of [C1] / [C3] follows from the given context
ConclusionFrom(context) ==
    IF Applied("diagrammatic_to_diagrammatic")
    THEN entails_named_state(context, call.inferred_named_state)
    ELSE entails_formula(context, call.F)

UnionContext ==
    Context(call.context.assumption_base \cup SeqToSet(call.formulae),
            call.context.named_state)

(***************************************************************************)
(* C1.  widening with an interpretation supplied returns true only if      *)
(* both context.entails_named_state(named_state, interpretation) and       *)
(* context.named_state <= named_state hold.                                *)
(* The source evaluates the entailment and drops it (line 108): the        *)
(* statement fails.                                                        *)
(***************************************************************************)
C1_WideningGatedByEntailment ==
    (/\ Applied("widening")
     /\ WellTyped
     /\ call.attribute_interpretation # <<>>
     /\ call.out = PyTrue)
        => /\ entails_named_state(call.context, call.named_state)
           /\ Le(call.context.named_state, call.named_state)

(***************************************************************************)
(* C2.  thinning with no assumption base returns true iff                  *)
(* named_state <= context.named_state; with a non-empty assumption base it *)
(* returns exactly is_named_entailment(assumption_base, interpretation,    *)
(* named_state) of the context's named state.                              *)
(***************************************************************************)
C2_Thinning ==
    (Applied("thinning") /\ WellTyped) =>
        /\ call.assumption_base = <<>>
            => call.out = Bool(Le(call.named_state, call.context.named_state))
        /\ (call.assumption_base # <<>> /\ call.assumption_base[1] # {})
            => call.out = Bool(is_named_entailment(call.context.named_state,
                                                   call.assumption_base[1],
                                                   {call.named_state}))

\* thinning licensed by the hypotheses alone: the named state is not below
\* the context's in the extension order, yet the rule holds
C2_Witness ==
    /\ Applied("thinning")
    /\ WellTyped
    /\ call.assumption_base # <<>>
    /\ call.assumption_base[1] # {}
    /\ ~Le(call.named_state, call.context.named_state)
    /\ call.out = PyTrue

(***************************************************************************)
(* C3.  sentential_to_sentential and sentential_to_diagrammatic raise the  *)
(* disjunction error exactly when neither F1 nor F2 evaluates to true in   *)
(* the context's named state; an indeterminate value is not true.          *)
(***************************************************************************)
C3_DisjunctionPrecondition ==
    (Applied("sentential_to_sentential") \/ Applied("sentential_to_diagrammatic"))
        => (call.out = DisjunctionError <=> (~Holds(call.F1) /\ ~Holds(call.F2)))

\* both disjuncts indeterminate, neither false: the rule is refused
C3_Witness ==
    /\ Applied("sentential_to_sentential")
    /\ ValueOf(call.F1) = Unknown
    /\ ValueOf(call.F2) = Unknown
    /\ call.F1 # call.F2
    /\ call.out = DisjunctionError

(***************************************************************************)
(* C4.  Past the disjunction precondition, sentential_to_sentential        *)
(* returns true iff G evaluates to true whenever F1 does and whenever F2   *)
(* does, and false otherwise.                                              *)
(* Lines 236-240 test the values by truthiness, and the indeterminate      *)
(* value is truthy: the statement fails.                                   *)
(***************************************************************************)
C4_CaseSplitDischarge ==
    (Applied("sentential_to_sentential") /\ call.out # DisjunctionError)
        => call.out = Bool(/\ Holds(call.F1) => Holds(call.G)
                           /\ Holds(call.F2) => Holds(call.G))

(***************************************************************************)
(* C5.  Past the disjunction precondition, sentential_to_diagrammatic      *)
(* returns true iff every world of the target named state, under every     *)
(* variable assignment, satisfies Context(beta + F1, context.named_state)  *)
(* and Context(beta + F2, context.named_state); it returns false           *)
(* otherwise.  beta + F is the set union: a formula of beta is not added   *)
(* a second time.                                                          *)
(***************************************************************************)
C5_SententialToDiagrammatic ==
    (Applied("sentential_to_diagrammatic") /\ call.out # DisjunctionError)
        => call.out =
            Bool(\A world \in get_worlds(call.named_state) :
                 \A X \in VariableAssignments :
                    /\ satisfies_context(world,
                           Context(call.context.assumption_base \cup {call.F1},
                                   call.context.named_state), X)
                    /\ satisfies_context(world,
                           Context(call.context.assumption_base \cup {call.F2},
                                   call.context.named_state), X))

\* the rule holds for two different disjuncts, one of them in beta already
C5_Witness ==
    /\ Applied("sentential_to_diagrammatic")
    /\ call.F1 # call.F2
    /\ call.F1 \in call.context.assumption_base
    /\ call.F2 \notin call.context.assumption_base
    /\ call.out = PyTrue

(***************************************************************************)
(* C6.  diagrammatic_to_diagrammatic and diagrammatic_to_sentential, given *)
(* at least one formula, raise the exhaustiveness error whenever the named *)
(* states are not exhaustive on the basis of the formulae, whatever the    *)
(* proviso and the conclusion would give.                                  *)
(***************************************************************************)
C6_ExhaustivenessRejection ==
    (CaseRule /\ call.formulae # <<>> /\ ~Exhaustive)
        => call.out = ExhaustiveError

\* one branch of the basis is omitted; the proviso holds and the conclusion
\* is entailed, and still the rule raises
C6_Witness ==
    /\ Applied("diagrammatic_to_diagrammatic")
    /\ call.formulae # <<>>
    /\ Cardinality(call.named_states)
         < Cardinality(get_basis(call.context.named_state,
                                 call.variable_assignment, call.formulae))
    /\ \A s \in call.named_states :
         \E b \in get_basis(call.context.named_state, call.variable_assignment,
                            call.formulae) :
            get_worlds(s) = BranchWorlds(call.context.named_state,
                                         call.variable_assignment,
                                         call.formulae, b)
    /\ ProvisoAgainst(SeqToSet(call.formulae))
    /\ ConclusionFrom(UnionContext)
    /\ call.out = ExhaustiveError

(***************************************************************************)
(* C7.  In [C1] and [C3] the proviso is checked against an assumption base *)
(* built from the supplied formulae when formulae are given.               *)
(* As claimed: against the context's own assumption base when none are     *)
(* given.  That fails: lines 268 and 375 build an assumption base from the *)
(* context's vocabulary alone, one with no formulae.                       *)
(***************************************************************************)
C7_ProvisoBaseAsClaimed ==
    CaseRule =>
        /\ (call.formulae # <<>> /\ Exhaustive)
            => (ProvisoFailed <=> ~ProvisoAgainst(SeqToSet(call.formulae)))
        /\ call.formulae = <<>>
            => (ProvisoFailed <=> ~ProvisoAgainst(call.context.assumption_base))

\* C7 as amended: with no formulae supplied the proviso is checked against
\* an empty assumption base (every world of the context's named state must
\* refine one of the named states)
C7_ProvisoBase ==
    CaseRule =>
        /\ (call.formulae # <<>> /\ Exhaustive)
            => (ProvisoFailed <=> ~ProvisoAgainst(SeqToSet(call.formulae)))
        /\ call.formulae = <<>>
            => (ProvisoFailed <=> ~ProvisoAgainst({}))

\* no formulae supplied: the proviso would hold against the context's own
\* assumption base, and the rule raises the proviso error
C7_Witness ==
    /\ CaseRule
    /\ call.formulae = <<>>
    /\ ProvisoAgainst(call.context.assumption_base)
    /\ ProvisoFailed

(***************************************************************************)
(* C8.  In [C1] and [C3], once exhaustiveness and the proviso have passed, *)
(* the result is the entailment of the conclusion from the Context whose   *)
(* assumption base is the union of the context's formulae and the supplied *)
(* formulae and whose named state is the context's; a failed proviso is a  *)
(* raised error, never the value false.                                    *)
(***************************************************************************)
C8_ConclusionFromUnion ==
    (CaseRule /\ (call.formulae = <<>> \/ Exhaustive)) =>
        IF ProvisoAgainst(SeqToSet(call.formulae))
        THEN call.out = Bool(ConclusionFrom(UnionContext))
        ELSE ProvisoFailed

\* the conclusion follows from the union and not from the supplied formulae
\* alone, and some world satisfies the union: the context's existing
\* formulae are part of the extended context
C8_Witness ==
    /\ CaseRule
    /\ call.formulae # <<>>
    /\ call.context.assumption_base # {}
    /\ ~ConclusionFrom(Context(SeqToSet(call.formulae), call.context.named_state))
    /\ \E w \in get_worlds(call.context.named_state) : \E X \in VariableAssignments :
          SatisfiesBase(w, X, UnionContext.assumption_base)
    /\ call.out = PyTrue

(***************************************************************************)
(* C9.  diagrammatic_absurdity returns context.entails_named_state(        *)
(* named_state, interpretation); when the assumption base holds a formula  *)
(* that is false in every world of the context's named state it returns    *)
(* true for every named state, unrelated ones included.                    *)
(***************************************************************************)
C9_AbsurdityVacuity ==
    (Applied("diagrammatic_absurdity") /\ WellTyped) =>
        /\ call.out = Bool(entails_named_state(call.context, call.named_state))
        /\ Absurd(call.context) => call.out = PyTrue

\* an absurd context yields a named state unrelated to its own
C9_Witness ==
    /\ Applied("diagrammatic_absurdity")
    /\ WellTyped
    /\ Absurd(call.context)
    /\ Unrelated(call.named_state, call.context.named_state)
    /\ call.out = PyTrue

(***************************************************************************)
(* C10.  diagram_reiteration(context) returns a value equal to             *)
(* context.named_state and leaves the context (assumption base and named   *)
(* state) as it was, so a repeated call returns the same named state.      *)
(***************************************************************************)
C10_ReiterationIdentity ==
    [][call'.rule = "diagram_reiteration"
        => /\ call'.out = ctx.named_state
           /\ ctx' = ctx
           /\ call'.out = diagram_reiteration(ctx')]_vars

\* reiteration applied to a context that holds hypotheses and a partly
\* determined diagram
C10_Witness ==
    /\ Applied("diagram_reiteration")
    /\ call.context.assumption_base # {}
    /\ ~is_world(call.out)
    /\ call.out = ctx.named_state

(***************************************************************************)
(* C11.  thinning, widening and diagrammatic_absurdity raise a TypeError   *)
(* whenever the context argument is not a Context or the named_state       *)
(* argument is not a NamedState; the context is checked first, and an      *)
(* application that raises has compared and evaluated nothing, so its      *)
(* outcome is the error whatever the other arguments are.                  *)
(***************************************************************************)
TypeCheckedRule ==
    Applied("thinning") \/ Applied("widening") \/ Applied("diagrammatic_absurdity")

C11_ArgumentKindErrors ==
    TypeCheckedRule =>
        /\ ~call.context.is_Context => call.out = ContextTypeError
        /\ (call.context.is_Context /\ ~call.named_state.is_NamedState)
              => call.out = NamedStateTypeError
        /\ WellTyped => call.out \in {PyTrue, PyFalse}

\* both arguments are of the wrong kind and the context's error is the one
\* raised
C11_Witness ==
    /\ Applied("widening")
    /\ ~call.context.is_Context
    /\ ~call.named_state.is_NamedState
    /\ call.out = ContextTypeError

(***************************************************************************)
(* What the claims on State speak of.                                      *)
(***************************************************************************)
\* the call addresses a pair the attribute system declares
Declared == call.ao_pair \in DeclaredPairs(call.self.attribute_system)
\* the declared domain of the attribute the call addresses
DomainOfCall == DeclaredDomain(call.self.attribute_system, call.ao_pair[1])
\* the ValueSet of the addressed pair before the call
CurrentOfCall == call.self.ascriptions[call.ao_pair]
Rejected == call.out # NoError
\* a State holds some pair narrowed below its declared domain
Narrowed(s) == \E pr \in DOMAIN s.ascriptions : s.ascriptions[pr] # DeclaredDomain(s.attribute_system, pr[1])

(***************************************************************************)
(* C12.  A set_ascription call that addresses an undeclared (attribute,    *)
(* object) pair, hands in an empty ValueSet, or hands in a ValueSet that   *)
(* is not a subset of the attribute's declared domain raises an error, and *)
(* the ascriptions of the State after the call are those before it.        *)
(***************************************************************************)
C12_RejectedWithoutMutation ==
    (Applied("set_ascription")
     /\ (~Declared \/ call.new_valueset = {}
         \/ (Declared /\ ~(call.new_valueset \subseteq DomainOfCall))))
        => /\ Rejected
           /\ state.ascriptions = call.self.ascriptions

\* a ValueSet outside the declared domain is turned down for a pair that
\* had been narrowed, and the pair keeps its narrowed ValueSet
C12_Witness ==
    /\ Applied("set_ascription")
    /\ Declared
    /\ call.new_valueset # {}
    /\ ~(call.new_valueset \subseteq DomainOfCall)
    /\ call.out = ValueError
    /\ CurrentOfCall # DomainOfCall
    /\ state.ascriptions[call.ao_pair] = CurrentOfCall

(***************************************************************************)
(* C13.  set_ascription succeeds only when the new ValueSet is a subset of *)
(* the pair's current ValueSet or a strict superset of it within the       *)
(* attribute's declared domain; after a successful call the pair holds the *)
(* new ValueSet and every other pair holds what it held.                   *)
(***************************************************************************)
C13_NarrowOrRewiden ==
    (Applied("set_ascription") /\ ~Rejected) =>
        /\ Declared
        /\ \/ call.new_valueset \subseteq CurrentOfCall
           \/ /\ CurrentOfCall \subseteq call.new_valueset
              /\ CurrentOfCall # call.new_valueset
              /\ call.new_valueset \subseteq DomainOfCall
        /\ state.ascriptions[call.ao_pair] = call.new_valueset
        /\ \A pr \in DeclaredPairs(asys) \ {call.ao_pair} :
              state.ascriptions[pr] = call.self.ascriptions[pr]

\* a pair narrowed to {R} is widened again to {R, G} while the other pair
\* stays narrowed
C13_Witness ==
    /\ Applied("set_ascription")
    /\ ~Rejected
    /\ CurrentOfCall = {"R"}
    /\ call.new_valueset = {"R", "G"}
    /\ state.ascriptions[call.ao_pair] = {"R", "G"}
    /\ \E pr \in DeclaredPairs(asys) \ {call.ao_pair} :
          state.ascriptions[pr] # color.value_set

(***************************************************************************)
(* C14.  In every State reached by construction, with or without initial   *)
(* ascriptions, and any set_ascription calls, accepted or rejected, the    *)
(* ascriptions are a total map over the (attribute, object) pairs of the   *)
(* attribute system, every ValueSet is non-empty and a subset of its       *)
(* attribute's declared domain, and a pair never set holds the full        *)
(* declared domain; and the State equals a State over the same system iff  *)
(* all their ascriptions agree, in whatever order they were set.           *)
(***************************************************************************)
\* total maps of ascriptions, each handed to the constructor in one piece
TotalAscriptions == [DeclaredPairs(asys) -> (SUBSET color.value_set) \ {{}}]

C14_StateInvariant ==
    /\ DOMAIN state.ascriptions = DeclaredPairs(state.attribute_system)
    /\ \A pr \in DeclaredPairs(state.attribute_system) :
        /\ state.ascriptions[pr] # {}
        /\ state.ascriptions[pr] \subseteq DeclaredDomain(state.attribute_system, pr[1])
        /\ pr \notin SeqToSet(explicit)
              => state.ascriptions[pr] = DeclaredDomain(state.attribute_system, pr[1])
    /\ \A ascriptions \in TotalAscriptions :
          State_eq(state, State(asys, ascriptions))
              <=> \A pr \in DeclaredPairs(asys) : state.ascriptions[pr] = ascriptions[pr]

\* the pairs were set in the order s2, s1, a call has just been rejected,
\* and the State equals the one built from the same ascriptions at once
C14_Witness ==
    /\ explicit = <<<<"color", "s2">>, <<"color", "s1">>>>
    /\ Applied("set_ascription")
    /\ Rejected
    /\ Narrowed(state)
    /\ State_eq(state, State(asys, [pr \in DeclaredPairs(asys) |-> state.ascriptions[pr]]))

(***************************************************************************)
(* What the claims on Vocabulary speak of.                                 *)
(***************************************************************************)
NoDuplicates(l) == Cardinality(SeqToSet(l)) = Len(l)
\* the names of the relation symbols of a list
Names(R) == {RelationName(R[i]) : i \in DOMAIN R}
\* an add_constant or add_variable call
AddCall == Applied("add_constant") \/ Applied("add_variable")
\* the item is one of the constants or one of the variables
InSymbolSets(self, item) == item \in SeqToSet(self.C) \/ item \in SeqToSet(self.V)

\* the Vocabulary after add_constant calls with the given symbols, in order
RECURSIVE AddConstants(_, _)
AddConstants(self, constants) ==
    IF constants = <<>> THEN self
    ELSE AddConstants(add_constant(self, Head(constants)).self, Tail(constants))

\* Vocabulary objects with the R and V of the given one, built by adding
\* constants one by one
BuiltByAdding(self) ==
    {AddConstants([self EXCEPT !.C = <<>>], constants) : constants \in SeqsUpTo(Symbols, 0, MaxSymbols)}

(***************************************************************************)
(* C15.  After construction and any add_constant / add_variable calls,     *)
(* accepted or rejected, C and V hold no duplicates and share no symbol,   *)
(* and the names of the relation symbols are unique; a construction with a *)
(* common element of C and V or with duplicate relation-symbol names, and  *)
(* an add of a symbol already in C or V, raises an error, and a rejected   *)
(* add leaves C, R and V as they were.                                     *)
(***************************************************************************)
C15_VocabularyInvariant ==
    /\ vocabulary.is_Vocabulary =>
        /\ NoDuplicates(vocabulary.C)
        /\ NoDuplicates(vocabulary.V)
        /\ SeqToSet(vocabulary.C) \cap SeqToSet(vocabulary.V) = {}
        /\ Cardinality(Names(vocabulary.R)) = Len(vocabulary.R)
    /\ (Applied("Vocabulary")
        /\ (SeqToSet(call.C) \cap SeqToSet(call.V) # {}
            \/ Cardinality(Names(call.R)) # Len(call.R)))
          => call.out # NoError /\ ~vocabulary.is_Vocabulary
    /\ (AddCall /\ InSymbolSets(call.self, call.symbol)) => call.out # NoError
    /\ (AddCall /\ call.out # NoError) => vocabulary = call.self

\* a variable that is already a constant is turned down, and the
\* Vocabulary, which holds constants and variables, is as it was
C15_Witness ==
    /\ Applied("add_variable")
    /\ call.symbol \in SeqToSet(call.self.C)
    /\ call.out = DuplicateSymbolError
    /\ call.self.V # <<>>
    /\ vocabulary = call.self

(***************************************************************************)
(* C16.  For an item that is not a relation symbol, `item in vocabulary`   *)
(* is true iff the item is one of the vocabulary's constants or one of its *)
(* variables; for a relation symbol it is true iff the symbol is in R.     *)
(***************************************************************************)
C16_Membership ==
    Applied("contains") =>
        call.out = Bool(IF IsRelationSymbol(call.item)
                        THEN call.item \in SeqToSet(call.self.R)
                        ELSE InSymbolSets(call.self, call.item))

(***************************************************************************)
(* C17.  Two Vocabulary objects that compare equal under == have the same  *)
(* _key(): their stored lists C, R and V are the same sequences, however   *)
(* the objects were reached (constructor arguments or add calls in any     *)
(* order, symbols differing only in letter case included).                 *)
(***************************************************************************)
C17_EqualImpliesSameKey ==
    vocabulary.is_Vocabulary =>
        \A other \in BuiltByAdding(vocabulary) :
            Vocabulary_eq(vocabulary, other)
                => Vocabulary_key(vocabulary) = Vocabulary_key(other)

====
